---------------------------- MODULE Spec2Model ----------------------------
(***************************************************************************)
(* Course-Planner (src/main.cpp): the keyed course store, the prerequisite *)
(* graph with its breadth-first "available after" traversal, the merge     *)
(* sort, and the session state kept by loadCoursesFile and main.           *)
(*                                                                         *)
(* A std::string is a sequence of character codes; a std::vector or        *)
(* std::list is a sequence; an unordered_map is a function whose DOMAIN is *)
(* the map's key set.  A Course* is a sequence of length 0 (nullptr) or 1. *)
(***************************************************************************)
EXTENDS Integers, Sequences, FiniteSets, TLC

VARIABLES
    courseMap,      \* CourseHashTable::courseMap of the global courseHashTable
    adjacencyList,  \* PrerequisiteGraph::adjacencyList of the global prereqGraph
    reverseList,    \* PrerequisiteGraph::reverseList of the global prereqGraph
    dataLoaded,     \* the global flag dataLoaded
    courses,        \* main's vector<Course> courses (the vector being sorted in SpecSort)
    message,        \* the status line loadCoursesFile printed last
    previousKeys,   \* history: the keys the store held when the last load began
    unsorted,       \* SpecSort: the vector as it was handed to mergeSort
    pc,             \* which call is running or has just returned
    courseKey,      \* findAvailableCourses: local courseKey
    q,              \* findAvailableCourses: local queue q
    visited,        \* findAvailableCourses: local map visited
    returned,       \* the value the last call returned
    nAdded          \* SpecGraph: number of addCourse calls made on the graph

vars == <<courseMap, adjacencyList, reverseList, dataLoaded, courses, message,
          previousKeys, unsorted, pc, courseKey, q, visited, returned, nAdded>>

(***************************************************************************)
(* Bounds of the model.                                                    *)
(***************************************************************************)
MaxLines == 2       \* lines of courses.txt in Spec
MaxCalls == 3       \* addCourse calls on one graph in SpecGraph
MaxSortLen == 3     \* length of the vector handed to mergeSort in SpecSort

(***************************************************************************)
(* Strings.                                                                *)
(***************************************************************************)
strA == <<65>>          \* "A"
stra == <<97>>          \* "a"
strB == <<66>>          \* "B"
strb == <<98>>          \* "b"
strAB == <<65, 66>>     \* "AB"
strAb == <<65, 98>>     \* "Ab"
strName == <<78, 97>>   \* "Na", a display name
strName2 == <<110, 65>> \* "nA", another display name
strEnd == <<45, 49>>    \* "-1", the end marker of courses.txt
strComma == <<44>>      \* ",", the delimiter of format

EmptyMap == [k \in {} |-> <<>>]

\* ::tolower on one character (C locale)
tolowerChar(c) == IF c \in 65..90 THEN c + 32 ELSE c

\* ::toupper on one character: used to state the claims only
toupperChar(c) == IF c \in 97..122 THEN c - 32 ELSE c

\* CourseHashTable::toLower and PrerequisiteGraph::toLower
toLower(str) == [i \in 1..Len(str) |-> tolowerChar(str[i])]

toUpper(str) == [i \in 1..Len(str) |-> toupperChar(str[i])]

\* std::string operator<= : ordinal, lexicographic comparison
RECURSIVE StrLeq(_, _)
StrLeq(s, t) ==
    IF s = <<>> THEN TRUE
    ELSE IF t = <<>> THEN FALSE
    ELSE IF s[1] < t[1] THEN TRUE
    ELSE IF s[1] > t[1] THEN FALSE
    ELSE StrLeq(Tail(s), Tail(t))

\* struct Course
Course(number, name, prereqs) ==
    [courseNumber |-> number, name |-> name, prerequisites |-> prereqs]

Range(s) == {s[i] : i \in 1..Len(s)}

\* number of occurrences of x in the sequence s
Count(s, x) == Cardinality({i \in 1..Len(s) : s[i] = x})

\* unordered_map::operator[] : the map after the access (a missing key is
\* inserted with a value-initialised mapped value)
Touch(map, key, dflt) ==
    IF key \in DOMAIN map THEN map ELSE map @@ (key :> dflt)

\* map[key] = value
Put(map, key, value) ==
    [k \in DOMAIN map \cup {key} |-> IF k = key THEN value ELSE map[k]]


(***************************************************************************)
(* CourseHashTable                                                         *)
(***************************************************************************)
\* CourseHashTable::insert
insert(map, course) == Put(map, toLower(course.courseNumber), course)

\* find as it would be with the key looked up as given, not folded
findUnfolded(map, courseNumber) ==
    IF courseNumber \in DOMAIN map THEN <<map[courseNumber]>> ELSE <<>>

\* CourseHashTable::find : <<>> is nullptr, <<c>> points at the stored record c
find(map, courseNumber) ==
    LET lowerKey == toLower(courseNumber)
    IN  IF lowerKey \in DOMAIN map THEN <<map[lowerKey]>> ELSE <<>>

\* CourseHashTable::getAllCourses, as the set of the records returned (the
\* iteration order of an unordered_map is unspecified)
getAllCourses(map) == {map[k] : k \in DOMAIN map}

\* CourseHashTable::empty
empty(map) == DOMAIN map = {}

\* CourseHashTable::size
size(map) == Cardinality(DOMAIN map)

(***************************************************************************)
(* PrerequisiteGraph                                                       *)
(***************************************************************************)
\* the body of addCourse's for loop, run on prerequisites[i..]
RECURSIVE addPrereqs(_, _, _, _)
addPrereqs(g, key, prereqs, i) ==
    IF i > Len(prereqs) THEN g
    ELSE LET prereq == prereqs[i]
             prereqKey == toLower(prereq)
             adj1 == Touch(g.adjacencyList, key, <<>>)
             adj2 == [adj1 EXCEPT ![key] = Append(@, prereqKey)]
             rev1 == Touch(g.reverseList, prereq, <<>>)
             rev2 == [rev1 EXCEPT ![prereq] = Append(@, key)]
         IN  addPrereqs([adjacencyList |-> adj2, reverseList |-> rev2],
                        key, prereqs, i + 1)

\* PrerequisiteGraph::addCourse : the graph after the call
addCourse(g, course) ==
    LET key == toLower(course.courseNumber)
        g0 == [adjacencyList |-> Put(g.adjacencyList, key, <<>>),
               reverseList |-> g.reverseList]
    IN  addPrereqs(g0, key, course.prerequisites, 1)

\* PrerequisiteGraph::getPrerequisites : the value returned
getPrerequisites(adj, courseNumber) ==
    Touch(adj, toLower(courseNumber), <<>>)[toLower(courseNumber)]

\* PrerequisiteGraph::getPrerequisites : adjacencyList after the call
getPrerequisitesEffect(adj, courseNumber) ==
    Touch(adj, toLower(courseNumber), <<>>)

\* findAvailableCourses: allPrereqsMet after the inner for loop over
\* adjacencyList[current]
allPrereqsMet(prereqs, key) ==
    \A i \in 1..Len(prereqs) : toLower(prereqs[i]) = key

\* findAvailableCourses: the pushes of the loop over reverseList[current],
\* run on dependents[i..]; visited[next] inserts a missing key as false
RECURSIVE pushDependents(_, _, _, _)
pushDependents(queue, vis, dependents, i) ==
    IF i > Len(dependents) THEN [q |-> queue, visited |-> vis]
    ELSE LET next == dependents[i]
             vis1 == Touch(vis, next, FALSE)
         IN  pushDependents(IF ~vis1[next] THEN Append(queue, next) ELSE queue,
                            vis1, dependents, i + 1)

\* markVisited as it would be with the mark forgotten
markVisitedForgotten(vis, current) == Touch(vis, current, FALSE)

\* findAvailableCourses: visited[current] = true
markVisited(vis, current) == Put(vis, current, TRUE)

(***************************************************************************)
(* MergeSort                                                               *)
(***************************************************************************)
\* vector element i, indices from 0 as in the code
At(v, i) == v[i + 1]

\* v with v[i] = x, indices from 0
SetAt(v, i, x) == [v EXCEPT ![i + 1] = x]

\* takeLeft as it would be with < for <=
takeLeftStrict(l, r) ==
    StrLeq(l.courseNumber, r.courseNumber) /\ l.courseNumber # r.courseNumber

\* merge: the test leftArray[i].courseNumber <= rightArray[j].courseNumber
takeLeft(l, r) == StrLeq(l.courseNumber, r.courseNumber)

\* merge: the three while loops, from the loop state (i, j, k)
RECURSIVE mergeLoops(_, _, _, _, _, _)
mergeLoops(v, leftArray, rightArray, i, j, k) ==
    LET n1 == Len(leftArray)
        n2 == Len(rightArray)
    IN  IF i < n1 /\ j < n2
        THEN IF takeLeft(At(leftArray, i), At(rightArray, j))
             THEN mergeLoops(SetAt(v, k, At(leftArray, i)),
                             leftArray, rightArray, i + 1, j, k + 1)
             ELSE mergeLoops(SetAt(v, k, At(rightArray, j)),
                             leftArray, rightArray, i, j + 1, k + 1)
        ELSE IF i < n1
        THEN mergeLoops(SetAt(v, k, At(leftArray, i)),
                        leftArray, rightArray, i + 1, j, k + 1)
        ELSE IF j < n2
        THEN mergeLoops(SetAt(v, k, At(rightArray, j)),
                        leftArray, rightArray, i, j + 1, k + 1)
        ELSE v

\* MergeSort::merge : the vector after the call
merge(v, left, mid, right) ==
    LET n1 == mid - left + 1
        n2 == right - mid
        leftArray == [i \in 1..n1 |-> At(v, left + (i - 1))]
        rightArray == [j \in 1..n2 |-> At(v, mid + 1 + (j - 1))]
    IN  mergeLoops(v, leftArray, rightArray, 0, 0, left)

\* MergeSort::mergeSort : the vector after the call
RECURSIVE mergeSort(_, _, _)
mergeSort(v, left, right) ==
    IF left < right
    THEN LET mid == left + ((right - left) \div 2)
             v1 == mergeSort(v, left, mid)
             v2 == mergeSort(v1, mid + 1, right)
         IN  merge(v2, left, mid, right)
    ELSE v

(***************************************************************************)
(* findAvailableCourses, one loop iteration at a time.  A traversal state  *)
(* holds the locals q, visited and available and the member adjacencyList  *)
(* (which operator[] may extend).                                          *)
(***************************************************************************)
\* lines 168-181: the state before the while loop; found says whether the
\* early return of line 173 was not taken
findBegin(adj, rev, completedCourse) ==
    LET key == toLower(completedCourse)
    IN  [courseKey |-> key,
         found |-> key \in DOMAIN rev,
         q |-> IF key \in DOMAIN rev THEN rev[key] ELSE <<>>,
         visited |-> [k \in {} |-> FALSE],
         available |-> <<>>,
         adjacencyList |-> adj]

\* lines 184-208: one iteration of the while loop, q not empty
findIteration(st, rev) ==
    LET current == Head(st.q)
        q1 == Tail(st.q)
        vis0 == Touch(st.visited, current, FALSE)
    IN  IF vis0[current]
        THEN [st EXCEPT !.q = q1, !.visited = vis0]
        ELSE LET vis1 == markVisited(vis0, current)
                 adj1 == Touch(st.adjacencyList, current, <<>>)
             IN  IF allPrereqsMet(adj1[current], st.courseKey)
                 THEN LET pushed ==
                              IF current \in DOMAIN rev
                              THEN pushDependents(q1, vis1, rev[current], 1)
                              ELSE [q |-> q1, visited |-> vis1]
                      IN  [st EXCEPT !.q = pushed.q,
                                     !.visited = pushed.visited,
                                     !.available = Append(@, current),
                                     !.adjacencyList = adj1]
                 ELSE [st EXCEPT !.q = q1, !.visited = vis1,
                                 !.adjacencyList = adj1]

\* lines 183-209: the while loop, run until the queue is empty
RECURSIVE findLoop(_, _)
findLoop(st, rev) ==
    IF st.q = <<>> THEN st ELSE findLoop(findIteration(st, rev), rev)

\* PrerequisiteGraph::findAvailableCourses : the vector returned
findAvailableCourses(adj, rev, completedCourse) ==
    findLoop(findBegin(adj, rev, completedCourse), rev).available

(***************************************************************************)
(* format and loadCoursesFile                                              *)
(***************************************************************************)
\* format(s, ","): the fields of s between the delimiters; i is the
\* position read, field the characters since the last delimiter
RECURSIVE formatFrom(_, _, _, _)
formatFrom(s, i, field, result) ==
    IF i > Len(s) THEN Append(result, field)
    ELSE IF <<s[i]>> = strComma
    THEN formatFrom(s, i + 1, <<>>, Append(result, field))
    ELSE formatFrom(s, i + 1, Append(field, s[i]), result)

format(s) == formatFrom(s, 1, <<>>, <<>>)

\* lines 364-373: the Course built from the fields of a line.  Every line of
\* FileLines but the end marker has at least two fields: info[1] of a line
\* with fewer is read out of bounds, which no modelled file makes happen.
parseCourse(info) ==
    Course(info[1], info[2], SubSeq(info, 3, Len(info)))

\* clearExisting as it would be with the old structures kept
clearExistingKeepsAll(old) == old

\* clearExisting as it would be with only the store replaced
clearExistingStoreOnly(old) ==
    [courseMap |-> EmptyMap, adjacencyList |-> old.adjacencyList,
     reverseList |-> old.reverseList]

\* lines 355-357: courseHashTable = CourseHashTable(); prereqGraph =
\* PrerequisiteGraph(); old holds the three maps before
clearExisting(old) ==
    [courseMap |-> EmptyMap, adjacencyList |-> EmptyMap, reverseList |-> EmptyMap]

\* lines 359-379: the while loop from line i of the file on; st holds
\* entered, courses and the three maps
RECURSIVE readLines(_, _, _)
readLines(lines, i, st) ==
    IF i > Len(lines) THEN st
    ELSE IF lines[i] = strEnd THEN st
    ELSE LET course == parseCourse(format(lines[i]))
             g == addCourse([adjacencyList |-> st.adjacencyList,
                             reverseList |-> st.reverseList], course)
         IN  readLines(lines, i + 1,
                       [entered |-> TRUE,
                        courses |-> Append(st.courses, course),
                        courseMap |-> insert(st.courseMap, course),
                        adjacencyList |-> g.adjacencyList,
                        reverseList |-> g.reverseList])

\* loadCoursesFile: the globals after the call, the vector returned and the
\* status printed; lines is what getline yields (nothing for a missing file)
loadCoursesFile(old, lines) ==
    LET cleared == clearExisting(old)
        st == readLines(lines, 1,
                        [entered |-> FALSE,
                         courses |-> <<>>,
                         courseMap |-> cleared.courseMap,
                         adjacencyList |-> cleared.adjacencyList,
                         reverseList |-> cleared.reverseList])
    IN  IF ~st.entered
        THEN [courseMap |-> st.courseMap, adjacencyList |-> st.adjacencyList,
              reverseList |-> st.reverseList, dataLoaded |-> FALSE,
              message |-> "Could not access courses file", courses |-> st.courses]
        ELSE IF Len(st.courses) = 0
        THEN [courseMap |-> st.courseMap, adjacencyList |-> st.adjacencyList,
              reverseList |-> st.reverseList, dataLoaded |-> FALSE,
              message |-> "Courses file appears to be empty", courses |-> st.courses]
        ELSE [courseMap |-> st.courseMap, adjacencyList |-> st.adjacencyList,
              reverseList |-> st.reverseList, dataLoaded |-> TRUE,
              message |-> "Data successfully loaded",
              courses |-> mergeSort(st.courses, 0, Len(st.courses) - 1)]

\* assignCourses as it would be with the old vector kept on an empty result
assignCoursesKeepOnEmpty(old, loaded) == IF loaded = <<>> THEN old ELSE loaded

\* main, line 503: courses = loadCoursesFile()
assignCourses(old, loaded) == loaded

(***************************************************************************)
(* Inputs                                                                  *)
(***************************************************************************)
SeqsUpTo(S, n) == UNION {[1..k -> S] : k \in 0..n}

\* s1,s2,...: the fields joined by the delimiter, as a line of courses.txt
RECURSIVE joinFields(_)
joinFields(fields) ==
    IF Len(fields) = 1 THEN fields[1]
    ELSE fields[1] \o strComma \o joinFields(Tail(fields))

lineOf(course) ==
    joinFields(<<course.courseNumber, course.name>> \o course.prerequisites)

\* the records a line of courses.txt may hold in Spec
FileCourses ==
    {Course(strA, strName, <<>>), Course(stra, strName2, <<>>),
     Course(stra, strName, <<strB>>), Course(strB, strName, <<>>),
     Course(strB, strName2, <<stra>>)}

FileLines == {lineOf(c) : c \in FileCourses} \cup {strEnd}

\* the identifiers asked for in Spec
QueryIds == {strA, stra, strB, strb}

\* the records handed to addCourse in SpecGraph
GraphCourses ==
    {Course(n, strName, ps) : n \in {stra, strB},
                              ps \in {<<>>, <<stra>>, <<strA>>, <<strb>>, <<stra, strb>>}}

\* the records sorted in SpecSort
SortIds == {strA, stra, strB, strAB}

SortCourses == {Course(n, nm, <<>>) : n \in SortIds, nm \in {strName, strName2}}

(***************************************************************************)
(* Spec: a session of main's menu loop                                     *)
(***************************************************************************)
Init ==
    /\ courseMap = EmptyMap
    /\ adjacencyList = EmptyMap
    /\ reverseList = EmptyMap
    /\ dataLoaded = FALSE
    /\ courses = <<>>
    /\ message = "none"
    /\ previousKeys = {}
    /\ unsorted = <<>>
    /\ pc = "menu"
    /\ courseKey = <<>>
    /\ q = <<>>
    /\ visited = EmptyMap
    /\ returned = <<>>
    /\ nAdded = 0

\* main, input == 1: courses = loadCoursesFile().  previousKeys keeps
\* the keys the store held before the call.
LoadDataStructure(exists, lines) ==
    /\ pc = "menu"
    /\ exists \/ lines = <<>>
    /\ LET r == loadCoursesFile([courseMap |-> courseMap,
                                 adjacencyList |-> adjacencyList,
                                 reverseList |-> reverseList], lines)
       IN  /\ courseMap' = r.courseMap
           /\ adjacencyList' = r.adjacencyList
           /\ reverseList' = r.reverseList
           /\ dataLoaded' = r.dataLoaded
           /\ message' = r.message
           /\ courses' = assignCourses(courses, r.courses)
    /\ previousKeys' = DOMAIN courseMap
    /\ pc' = "loaded"
    /\ returned' = <<>>
    /\ UNCHANGED <<unsorted, courseKey, q, visited, nAdded>>

\* main, input == 2: printCourseList(courses) prints the vector
PrintCourseList ==
    /\ pc = "menu"
    /\ returned' = courses
    /\ pc' = "printed"
    /\ UNCHANGED <<courseMap, adjacencyList, reverseList, dataLoaded, courses,
                   message, previousKeys, unsorted, courseKey, q, visited, nAdded>>

\* main, input == 3: searchCourse() prints what find returns
SearchCourse(courseNumber) ==
    /\ pc = "menu"
    /\ returned' = find(courseMap, courseNumber)
    /\ pc' = "searched"
    /\ UNCHANGED <<courseMap, adjacencyList, reverseList, dataLoaded, courses,
                   message, previousKeys, unsorted, courseKey, q, visited, nAdded>>

\* main, lines 485-496: the loop comes back to the menu
Menu ==
    /\ pc # "menu"
    /\ pc' = "menu"
    /\ returned' = <<>>
    /\ UNCHANGED <<courseMap, adjacencyList, reverseList, dataLoaded, courses,
                   message, previousKeys, unsorted, courseKey, q, visited, nAdded>>

Next ==
    \/ \E exists \in BOOLEAN, lines \in SeqsUpTo(FileLines, MaxLines) :
           LoadDataStructure(exists, lines)
    \/ PrintCourseList
    \/ \E x \in QueryIds : SearchCourse(x)
    \/ Menu

Spec == Init /\ [][Next]_vars

(***************************************************************************)
(* SpecGraph: one PrerequisiteGraph, built by addCourse calls and queried  *)
(***************************************************************************)
InitGraph ==
    /\ courseMap = EmptyMap
    /\ adjacencyList = EmptyMap
    /\ reverseList = EmptyMap
    /\ dataLoaded = FALSE
    /\ courses = <<>>
    /\ message = "none"
    /\ previousKeys = {}
    /\ unsorted = <<>>
    /\ pc = "idle"
    /\ courseKey = <<>>
    /\ q = <<>>
    /\ visited = EmptyMap
    /\ returned = <<>>
    /\ nAdded = 0

\* prereqGraph.addCourse(course)
AddCourse(course) ==
    /\ pc = "idle"
    /\ nAdded < MaxCalls
    /\ LET g == addCourse([adjacencyList |-> adjacencyList,
                           reverseList |-> reverseList], course)
       IN  /\ adjacencyList' = g.adjacencyList
           /\ reverseList' = g.reverseList
    /\ nAdded' = nAdded + 1
    /\ UNCHANGED <<courseMap, dataLoaded, courses, message, previousKeys,
                   unsorted, pc, courseKey, q, visited, returned>>

\* findAvailableCourses(completedCourse, hashTable), lines 168-181: up to the
\* while loop, or the early return of line 173
FindAvailableCoursesBegin(completedCourse) ==
    /\ pc = "idle"
    /\ LET st == findBegin(adjacencyList, reverseList, completedCourse)
       IN  /\ courseKey' = st.courseKey
           /\ q' = st.q
           /\ visited' = st.visited
           /\ returned' = st.available
           /\ pc' = IF st.found THEN "findAvailableCourses" ELSE "foundAvailable"
    /\ UNCHANGED <<courseMap, adjacencyList, reverseList, dataLoaded, courses,
                   message, previousKeys, unsorted, nAdded>>

\* findAvailableCourses, lines 183-209: one iteration of the while loop
FindAvailableCoursesIteration ==
    /\ pc = "findAvailableCourses"
    /\ q # <<>>
    /\ LET st == findIteration([courseKey |-> courseKey, q |-> q,
                                visited |-> visited, available |-> returned,
                                adjacencyList |-> adjacencyList], reverseList)
       IN  /\ q' = st.q
           /\ visited' = st.visited
           /\ returned' = st.available
           /\ adjacencyList' = st.adjacencyList
    /\ UNCHANGED <<courseMap, reverseList, dataLoaded, courses, message,
                   previousKeys, unsorted, pc, courseKey, nAdded>>

\* findAvailableCourses, line 211: the queue is empty, return available
FindAvailableCoursesReturn ==
    /\ pc = "findAvailableCourses"
    /\ q = <<>>
    /\ pc' = "foundAvailable"
    /\ UNCHANGED <<courseMap, adjacencyList, reverseList, dataLoaded, courses,
                   message, previousKeys, unsorted, courseKey, q, visited,
                   returned, nAdded>>

\* prereqGraph.getPrerequisites(courseNumber)
GetPrerequisites(courseNumber) ==
    /\ pc = "idle"
    /\ returned' = getPrerequisites(adjacencyList, courseNumber)
    /\ adjacencyList' = getPrerequisitesEffect(adjacencyList, courseNumber)
    /\ courseKey' = toLower(courseNumber)
    /\ pc' = "gotPrerequisites"
    /\ UNCHANGED <<courseMap, reverseList, dataLoaded, courses, message,
                   previousKeys, unsorted, q, visited, nAdded>>

\* the caller has the returned value; the callee's locals are gone
CallerResumes ==
    /\ pc \in {"foundAvailable", "gotPrerequisites"}
    /\ pc' = "idle"
    /\ courseKey' = <<>>
    /\ q' = <<>>
    /\ visited' = EmptyMap
    /\ returned' = <<>>
    /\ UNCHANGED <<courseMap, adjacencyList, reverseList, dataLoaded, courses,
                   message, previousKeys, unsorted, nAdded>>

NextGraph ==
    \/ \E c \in GraphCourses : AddCourse(c)
    \/ \E x \in QueryIds : FindAvailableCoursesBegin(x)
    \/ FindAvailableCoursesIteration
    \/ FindAvailableCoursesReturn
    \/ \E x \in QueryIds : GetPrerequisites(x)
    \/ CallerResumes

\* a call that has begun runs on: the program is single-threaded and
\* nothing suspends it
SpecGraph ==
    /\ InitGraph
    /\ [][NextGraph]_vars
    /\ WF_vars(FindAvailableCoursesIteration)
    /\ WF_vars(FindAvailableCoursesReturn)

(***************************************************************************)
(* SpecSort: MergeSort::mergeSort on a vector                              *)
(***************************************************************************)
InitSort ==
    /\ courseMap = EmptyMap
    /\ adjacencyList = EmptyMap
    /\ reverseList = EmptyMap
    /\ dataLoaded = FALSE
    /\ courses \in SeqsUpTo(SortCourses, MaxSortLen)
    /\ message = "none"
    /\ previousKeys = {}
    /\ unsorted = courses
    /\ pc = "unsorted"
    /\ courseKey = <<>>
    /\ q = <<>>
    /\ visited = EmptyMap
    /\ returned = <<>>
    /\ nAdded = 0

\* MergeSort::mergeSort(courses, 0, courses.size() - 1)
MergeSortCall ==
    /\ pc = "unsorted"
    /\ courses' = mergeSort(courses, 0, Len(courses) - 1)
    /\ pc' = "sorted"
    /\ UNCHANGED <<courseMap, adjacencyList, reverseList, dataLoaded, message,
                   previousKeys, unsorted, courseKey, q, visited, returned, nAdded>>

NextSort == MergeSortCall

SpecSort == InitSort /\ [][NextSort]_vars

(***************************************************************************)
(* Properties                                                              *)
(***************************************************************************)
\* the records of v whose identifier is id, in the order they have in v
WithNumber(v, id) == SelectSeq(v, LAMBDA c : c.courseNumber = id)

\* C3: for every input vector (lengths 0 and 1 and repeated identifiers
\* included) mergeSort leaves the vector non-decreasing by identifier under
\* ordinal, case-sensitive comparison, and the records of one identifier
\* keep the order they had in the input.
C3_SortedAndStable ==
    pc = "sorted" =>
        /\ Len(courses) = Len(unsorted)
        /\ \A i \in 1..(Len(courses) - 1) :
               StrLeq(courses[i].courseNumber, courses[i + 1].courseNumber)
        /\ \A id \in SortIds : WithNumber(courses, id) = WithNumber(unsorted, id)

\* a sorted vector that was out of order and holds two different records of
\* one identifier
C3_Witness ==
    /\ pc = "sorted"
    /\ courses # unsorted
    /\ \E i, j \in 1..Len(courses) :
           /\ i < j
           /\ courses[i].courseNumber = courses[j].courseNumber
           /\ courses[i].name # courses[j].name

\* the case-folded identifiers of the records of v
FoldedIds(v) == {toLower(v[i].courseNumber) : i \in 1..Len(v)}

LoadFailed ==
    message \in {"Could not access courses file", "Courses file appears to be empty"}

\* C2, as claimed: after a failed load attempt every identifier that lookup
\* found before the attempt is still found.
C2_FailedLoadKeepsData ==
    LoadFailed =>
        \A x \in QueryIds : toLower(x) \in previousKeys => find(courseMap, x) # <<>>

\* C2, amended: a load replaces the store, the graph and the retained
\* sequence together also when it reads no record: after a failed attempt all
\* three are empty, dataLoaded is false and lookup finds no identifier, also
\* those the earlier load had stored.
C2_FailedLoadEmptiesAll ==
    LoadFailed =>
        /\ courseMap = EmptyMap
        /\ adjacencyList = EmptyMap
        /\ reverseList = EmptyMap
        /\ courses = <<>>
        /\ ~dataLoaded
        /\ \A x \in QueryIds : find(courseMap, x) = <<>>

\* a failed attempt after a load that had stored records
C2_Witness ==
    /\ LoadFailed
    /\ pc = "loaded"
    /\ previousKeys # {}

\* C4: lookup is case-insensitive: find(X), find(uppercase(X)) and
\* find(lowercase(X)) return the same result; a record found is one of the
\* ingested records, verbatim, whose folded identifier is that of X; and
\* every ingested identifier is found.
C4_LookupCaseInsensitive ==
    /\ \A x \in QueryIds :
           /\ find(courseMap, x) = find(courseMap, toUpper(x))
           /\ find(courseMap, x) = find(courseMap, toLower(x))
           /\ find(courseMap, x) # <<>> =>
                  /\ find(courseMap, x)[1] \in Range(courses)
                  /\ toLower(find(courseMap, x)[1].courseNumber) = toLower(x)
    /\ \A i \in 1..Len(courses) : find(courseMap, courses[i].courseNumber) # <<>>

\* searchCourse has printed a record ingested under an uppercase identifier
\* while a record of the lowercase identifier was ingested too
C4_Witness ==
    /\ pc = "searched"
    /\ returned # <<>>
    /\ returned[1].courseNumber = strA
    /\ \E i \in 1..Len(courses) : courses[i].courseNumber = stra

\* C5: after a load whose folded identifiers are disjoint from those the
\* store held before it, no earlier identifier is found, availableAfter on an
\* earlier identifier returns only courses of the new load, and the store
\* holds one record per distinct folded identifier of the new load.
C5_ResetIsolatesLoads ==
    previousKeys \cap FoldedIds(courses) = {} =>
        /\ \A x \in QueryIds : toLower(x) \in previousKeys =>
               /\ find(courseMap, x) = <<>>
               /\ Range(findAvailableCourses(adjacencyList, reverseList, x))
                      \subseteq FoldedIds(courses)
        /\ size(courseMap) = Cardinality(FoldedIds(courses))

\* a second, disjoint, non-empty load, one of whose courses becomes available
\* after an identifier of the first
C5_Witness ==
    /\ previousKeys # {}
    /\ courses # <<>>
    /\ previousKeys \cap FoldedIds(courses) = {}
    /\ \E x \in previousKeys :
           findAvailableCourses(adjacencyList, reverseList, x) # <<>>

\* C10: dataLoaded is true exactly when the store is non-empty and exactly
\* when the retained sequence is non-empty, and loadCoursesFile never prints
\* that the file appears to be empty.
C10_SessionStateAgrees ==
    /\ dataLoaded <=> ~empty(courseMap)
    /\ dataLoaded <=> courses # <<>>
    /\ message # "Courses file appears to be empty"

\* a load attempt that read no record, made while data was loaded
C10_Witness ==
    /\ pc = "loaded"
    /\ message = "Could not access courses file"
    /\ previousKeys # {}
    /\ ~dataLoaded
    /\ empty(courseMap)
    /\ courses = <<>>

NoRepeats(v) == \A i, j \in 1..Len(v) : v[i] = v[j] => i = j

\* the registered forward list of c, empty for a key adjacencyList lacks
ForwardOf(c) == IF c \in DOMAIN adjacencyList THEN adjacencyList[c] ELSE <<>>

\* the dependents recorded under p, none for a key reverseList lacks
ReverseOf(p) == IF p \in DOMAIN reverseList THEN reverseList[p] ELSE <<>>

GraphKeys ==
    DOMAIN adjacencyList \cup DOMAIN reverseList
        \cup UNION {Range(adjacencyList[c]) : c \in DOMAIN adjacencyList}
        \cup UNION {Range(reverseList[p]) : p \in DOMAIN reverseList}

\* C1, as claimed: when findAvailableCourses(p) has returned, every course
\* whose registered prerequisite list is exactly the one identifier p is in
\* the result, whatever the letter case of p in the record and in the query.
C1_SinglePrerequisiteAvailable ==
    pc = "foundAvailable" =>
        \A c \in DOMAIN adjacencyList :
            adjacencyList[c] = <<courseKey>> => c \in Range(returned)

\* C6, as claimed: every identifier findAvailableCourses(X) returns is a
\* dependent of X whose registered forward list is non-empty and holds only
\* lowercase(X).
C6_OnlySoleDependents ==
    pc = "foundAvailable" =>
        \A i \in 1..Len(returned) :
            /\ ForwardOf(returned[i]) # <<>>
            /\ Range(ForwardOf(returned[i])) = {courseKey}

\* C7, as claimed: reverseList is the transpose of adjacencyList, both keyed
\* and valued by lowercased identifiers: c is in reverse[p] as many times as
\* p is in forward[c].
C7_ReverseIsTranspose ==
    /\ \A k \in GraphKeys : k = toLower(k)
    /\ \A c \in GraphKeys, p \in GraphKeys :
           Count(ReverseOf(p), c) = Count(ForwardOf(c), p)

\* C8, as claimed: a step that is no addCourse call (a query) leaves the
\* store's map and the graph's two maps as they were.
C8_QueriesReadOnly ==
    [][nAdded' = nAdded =>
           /\ courseMap' = courseMap
           /\ adjacencyList' = adjacencyList
           /\ reverseList' = reverseList]_vars

\* C9: findAvailableCourses terminates on every graph addCourse builds,
\* cycles and self-references included, and its result holds no identifier
\* twice and no more identifiers than courses were added.
C9_TraversalTerminates ==
    /\ [](pc \in {"findAvailableCourses", "foundAvailable"} =>
              /\ NoRepeats(returned)
              /\ Len(returned) <= nAdded)
    /\ (pc = "findAvailableCourses") ~> (pc = "foundAvailable")

\* a traversal has returned two courses, one of them its own prerequisite
C9_Witness ==
    /\ pc = "foundAvailable"
    /\ Len(returned) >= 2
    /\ \E i \in 1..Len(returned) : returned[i] \in Range(ForwardOf(returned[i]))

=============================================================================
